---- MODULE Spec2Model ----
(***************************************************************************)
(* Chaos-engineering harness of the Tawakkalna resilience tests.           *)
(*                                                                         *)
(*   chaos_test_ddos_demo.py            DDoSSimulation with a mock server  *)
(*   chaos_test_ddos.py                 DDoSSimulation over the network    *)
(*   chaos_test_server_failure_demo.py  ChaosTest with a mock health check *)
(*   chaos_test_server_failure.py       ChaosTest over the network         *)
(*                                                                         *)
(* Specifications:                                                         *)
(*   Spec        run_simulation of the demo DDoS test (threads, lock)      *)
(*   SpecNet     run_simulation of the network DDoS test                   *)
(*   SpecChaos   the demo ChaosTest object under any sequence of calls     *)
(*   SpecReport  the four generate_report functions on bounded metrics     *)
(*   SpecLive    either DDoS script, run to its end                        *)
(*   SpecRunTest run_test of the demo ChaosTest                            *)
(*   SpecHealth  the ChaosTest object of either attrition script           *)
(*   SpecDemo    either demo script, run from start to report              *)
(***************************************************************************)
EXTENDS Integers, Sequences, FiniteSets, Bags, TLC

(***************************************************************************)
(* Sizes of the demo DDoS run, scaled down from the source (5 users of 3   *)
(* requests, 10 bots of 5 requests).  The activation threshold is the      *)
(* source's, and the bots together send more requests than it.             *)
(***************************************************************************)
NORMAL_USERS == 1

ATTACK_BOTS == 2

REQUESTS_PER_USER == 1

REQUESTS_PER_BOT == 4

\* the literal of `self.results["bot_requests_sent"] > 5`
ACTIVATION_THRESHOLD == 5

VARIABLES
    script,                  \* which of the four scripts is run
    results,                 \* self.results of DDoSSimulation (the four counters)
    lock,                    \* self.lock: TRUE while some thread is inside `with`
    ddos_protection_active,  \* self.ddos_protection_active
    actors,                  \* the actor threads: a bag of thread states
    mainpc,                  \* position of run_simulation
    mainidx,                 \* index of run_simulation's current launch loop
    report,                  \* what generate_report computed
    chaos,                   \* self.results of ChaosTest
    active_servers,          \* self.active_servers of the demo ChaosTest
    kill_calls,              \* number of kill_random_server calls made so far
    last_kill,               \* what the last kill_random_server call returned
    chaos_error              \* the exception that ended the ChaosTest, if any

(***************************************************************************)
(* The state of one actor thread.  Threads of one kind run the same code   *)
(* and are told apart by nothing but their id argument, which the code     *)
(* never reads in the demo, so the threads are kept as a bag of states:    *)
(*   kind         "user" (simulate_normal_user) or "bot"                   *)
(*   pc           position: unstarted, call, respond, lock, store,         *)
(*                store_blocked, done                                      *)
(*   i            the loop index                                           *)
(*   policy       the branch of mock_server_response the call has taken    *)
(*                and not yet returned from: none, pre, post, normal       *)
(*   status_code  the local status_code (0: not assigned)                  *)
(*   reg          the value read by the load half of a `+= 1`              *)
(***************************************************************************)
Unstarted(kind) ==
    [kind |-> kind, pc |-> "unstarted", i |-> 0, policy |-> "none",
     status_code |-> 0, reg |-> 0]

Running == BagToSet(actors)

\* the bag with one thread moved from state s to state s2
Moved(s, s2) == (actors (-) SetToBag({s})) (+) SetToBag({s2})

Budget(kind) == IF kind = "bot" THEN REQUESTS_PER_BOT ELSE REQUESTS_PER_USER

ddosVars == <<results, lock, ddos_protection_active, actors, mainpc, mainidx, report>>

chaosVars == <<chaos, active_servers, kill_calls, last_kill, chaos_error>>

NoReport == [kind |-> "none"]

\* SERVERS (the host names, shortened)
SERVERS == <<"riyadh-1", "riyadh-2", "jeddah-1", "jeddah-2", "dammam-1">>

SetOfServers == {SERVERS[n] : n \in 1 .. Len(SERVERS)}

InitChaosResults ==
    [total_requests |-> 0, successful_requests |-> 0, failed_requests |-> 0,
     response_times |-> <<>>, server_failures |-> <<>>]

\* ChaosTest.__init__
InitChaos ==
    /\ chaos = InitChaosResults
    /\ active_servers = SERVERS
    /\ kill_calls = 0
    /\ last_kill = "not called"
    /\ chaos_error = "none"

InitResults ==
    [normal_user_success |-> 0, normal_user_fail |-> 0,
     bot_requests_sent |-> 0, bot_requests_blocked |-> 0]

InitDDoS ==
    /\ results = InitResults
    /\ lock = FALSE
    /\ ddos_protection_active = FALSE
    /\ actors = [s \in {Unstarted("user"), Unstarted("bot")} |->
                    IF s.kind = "user" THEN NORMAL_USERS ELSE ATTACK_BOTS]
    /\ mainpc = "launch_users"
    /\ mainidx = 1
    /\ report = NoReport

(***************************************************************************)
(* Arithmetic of the reports.  A rate is the exact quotient num/den of the *)
(* float the code computes (the float comparison with 95, 80, 99.9 and     *)
(* 3000 agrees with the exact one on every count up to 2000); den = 0      *)
(* stands for a raised ZeroDivisionError.                                  *)
(***************************************************************************)
PyDiv(a, b) == IF b = 0 THEN [num |-> 0, den |-> 0] ELSE [num |-> a, den |-> b]

Times(q, k) == [num |-> q.num * k, den |-> q.den]

Zero == [num |-> 0, den |-> 1]

Raised(q) == q.den = 0

\* q >= k10 / 10
AtLeastX10(q, k10) == 10 * q.num >= k10 * q.den

\* q < k
Below(q, k) == q.num < k * q.den

ErrorReport(kind) == [kind |-> kind, error |-> "ZeroDivisionError"]

(***************************************************************************)
(* DDoSSimulation.generate_report, demo and network.                       *)
(***************************************************************************)
\* Variant of line 136 without the `if total_normal > 0` guard (sensitivity
\* check of EmptyCategoryReportsZero).
UnguardedSuccessRate(success, total_normal) ==
    Times(PyDiv(success, total_normal), 100)

\* lines 135-136
NormalSuccessRate(success, total_normal) ==
    IF total_normal > 0 THEN Times(PyDiv(success, total_normal), 100) ELSE Zero

BotBlockRate(blocked, sent) ==
    IF sent > 0 THEN Times(PyDiv(blocked, sent), 100) ELSE Zero

\* Variant of line 155 with a strict comparison (sensitivity check of
\* ThresholdsInclusiveWhenRecorded).
NormalAccessPassesStrictly(rate) == 10 * rate.num > 950 * rate.den

\* line 155
NormalAccessPasses(rate) == AtLeastX10(rate, 950)

BotBlockingPasses(rate) == AtLeastX10(rate, 800)

\* Variant of line 167 with `or` for `and` (sensitivity check of
\* OverallIffNoCriterionFails).
DDoSResilientEither(normal_success_rate, bot_block_rate) ==
    AtLeastX10(normal_success_rate, 950) \/ AtLeastX10(bot_block_rate, 800)

\* line 167
DDoSResilient(normal_success_rate, bot_block_rate) ==
    AtLeastX10(normal_success_rate, 950) /\ AtLeastX10(bot_block_rate, 800)

DemoDDoSReport(r) ==
    LET total_normal == r.normal_user_success + r.normal_user_fail
        normal_success_rate == NormalSuccessRate(r.normal_user_success, total_normal)
        bot_block_rate == BotBlockRate(r.bot_requests_blocked, r.bot_requests_sent)
    IN  IF Raised(normal_success_rate) \/ Raised(bot_block_rate)
        THEN ErrorReport("ddos_demo")
        ELSE [kind |-> "ddos_demo", error |-> "none",
              total_normal |-> total_normal,
              normal_success_rate |-> normal_success_rate,
              bot_block_rate |-> bot_block_rate,
              criteria |->
                [normal_user_access |->
                     IF NormalAccessPasses(normal_success_rate) THEN "PASS" ELSE "FAIL",
                 bot_blocking |->
                     IF BotBlockingPasses(bot_block_rate) THEN "PASS" ELSE "FAIL"],
              overall |->
                  IF DDoSResilient(normal_success_rate, bot_block_rate)
                  THEN "RESILIENT" ELSE "NEEDS IMPROVEMENT"]

NetNormalSuccessRate(success, total_normal) ==
    IF total_normal > 0 THEN Times(PyDiv(success, total_normal), 100) ELSE Zero

NetBotBlockRate(blocked, sent) ==
    IF sent > 0 THEN Times(PyDiv(blocked, sent), 100) ELSE Zero

NetDDoSResilient(normal_success_rate, bot_block_rate) ==
    AtLeastX10(normal_success_rate, 950) /\ AtLeastX10(bot_block_rate, 800)

NetDDoSReport(r) ==
    LET total_normal == r.normal_user_success + r.normal_user_fail
        normal_success_rate == NetNormalSuccessRate(r.normal_user_success, total_normal)
        bot_block_rate == NetBotBlockRate(r.bot_requests_blocked, r.bot_requests_sent)
    IN  IF Raised(normal_success_rate) \/ Raised(bot_block_rate)
        THEN ErrorReport("ddos_net")
        ELSE [kind |-> "ddos_net", error |-> "none",
              total_normal |-> total_normal,
              normal_success_rate |-> normal_success_rate,
              bot_block_rate |-> bot_block_rate,
              criteria |->
                [normal_user_access |->
                     IF AtLeastX10(normal_success_rate, 950) THEN "PASS" ELSE "FAIL",
                 bot_blocking |->
                     IF AtLeastX10(bot_block_rate, 800) THEN "PASS" ELSE "FAIL"],
              overall |->
                  IF NetDDoSResilient(normal_success_rate, bot_block_rate)
                  THEN "RESILIENT" ELSE "NEEDS IMPROVEMENT"]


(***************************************************************************)
(* DDoSSimulation of chaos_test_ddos_demo.py: the actor threads.           *)
(***************************************************************************)
\* the head of `for i in range(...)` with loop index n
LoopHead(kind, n) == IF n < Budget(kind) THEN "call" ELSE "done"

\* Variant of lines 48-49 that assigns the flag on every call, from the caller's
\* kind and the comparison (sensitivity check of ProtectionNeverReverts).
ProtectionAssignedPerCall(active, is_bot, bot_requests_sent) ==
    is_bot /\ bot_requests_sent > ACTIVATION_THRESHOLD

\* Variant of lines 48-49 with an inclusive comparison (sensitivity check of
\* ActivationIsStrict).
ProtectionAfterInclusiveCheck(active, is_bot, bot_requests_sent) ==
    IF bot_requests_sent >= ACTIVATION_THRESHOLD THEN TRUE ELSE active

\* lines 48-49: the flag after the threshold comparison
ProtectionAfterCheck(active, is_bot, bot_requests_sent) ==
    IF bot_requests_sent > ACTIVATION_THRESHOLD THEN TRUE ELSE active

\* Variant of lines 51-60 that never consults the flag: every bot call takes
\* the pre-activation branch (sensitivity check of ProtectionActivatesAndDecides).
PolicyOfIgnoringFlag(is_bot, active) == IF is_bot THEN "pre" ELSE "normal"

\* Variant of line 51 without `is_bot and`: protection applies to every caller
\* (sensitivity check of NormalStatusesIgnoreProtection).
PolicyOfAnyCaller(is_bot, active) ==
    IF active THEN "post" ELSE IF is_bot THEN "pre" ELSE "normal"

\* lines 51-65: the branch taken
PolicyOf(is_bot, active) ==
    IF is_bot /\ active THEN "post" ELSE IF is_bot THEN "pre" ELSE "normal"

\* lines 51-65: the statuses a branch can return, one for either side of its
\* draw (random.random() is in [0, 1) and 0.85, 0.30, 0.95 lie strictly inside)
StatusesOf(policy) ==
    CASE policy = "post" -> {429, 200}
      [] policy = "pre" -> {429, 200}
      [] policy = "normal" -> {200, 503}

\* Variant without mutual exclusion (sensitivity check of DemoTotalsExact).
LockIgnored == TRUE

\* `with self.lock:` enters when no thread is inside
LockAvailable == ~lock

\* Variant in which the `with` block is left with the lock still held
\* (sensitivity check of RunsReachReport).
StillLocked == TRUE

\* the lock after the end of a `with self.lock:` block
Unlocked == FALSE

\* line 89
IsBlocked(code) == code \in {429, 403}

\* the counter a normal user's record goes to (lines 75-78)
UserKey(code) == IF code = 200 THEN "normal_user_success" ELSE "normal_user_fail"

\* the end of one loop iteration: the locals die, the loop index advances
NextIteration(s) ==
    [s EXCEPT !.pc = LoopHead(s.kind, s.i + 1), !.i = s.i + 1,
              !.status_code = 0, !.reg = 0]

\* mock_server_response, lines 48-49
MockCheck(s) ==
    /\ s.pc = "call"
    /\ ddos_protection_active' =
           ProtectionAfterCheck(ddos_protection_active, s.kind = "bot",
                                results.bot_requests_sent)
    /\ actors' = Moved(s, [s EXCEPT !.pc = "respond"])
    /\ UNCHANGED <<results, lock, mainpc, mainidx, report>>
    /\ UNCHANGED <<script, chaosVars>>

\* mock_server_response, lines 51-65: the flag is read and the branch taken.
\* The draw inside the branch is thread-local, so the status it yields is drawn
\* where it is first used, in AcquireLoad.
MockRespond(s) ==
    /\ s.pc = "respond"
    /\ actors' = Moved(s, [s EXCEPT !.pc = "lock",
                                    !.policy = PolicyOf(s.kind = "bot",
                                                        ddos_protection_active)])
    /\ UNCHANGED <<results, lock, ddos_protection_active, mainpc, mainidx, report>>
    /\ UNCHANGED <<script, chaosVars>>

\* the status_code returned to the thread (lines 72, 85), then `with self.lock:`
\* and the load of the first `+= 1` (lines 74-78, 87-88)
AcquireLoad(s) ==
    /\ s.pc = "lock"
    /\ LockAvailable
    /\ lock' = TRUE
    /\ \E code \in StatusesOf(s.policy) :
           actors' = Moved(s, [s EXCEPT !.pc = "store",
                                        !.policy = "none",
                                        !.status_code = code,
                                        !.reg = IF s.kind = "bot"
                                                THEN results.bot_requests_sent
                                                ELSE results[UserKey(code)]])
    /\ UNCHANGED <<results, ddos_protection_active, mainpc, mainidx, report>>
    /\ UNCHANGED <<script, chaosVars>>

\* simulate_normal_user, lines 75-78: the store of the `+= 1`, then the release
UserStore(s) ==
    /\ s.pc = "store"
    /\ s.kind = "user"
    /\ results' = [results EXCEPT ![UserKey(s.status_code)] = s.reg + 1]
    /\ lock' = Unlocked
    /\ actors' = Moved(s, NextIteration(s))
    /\ UNCHANGED <<ddos_protection_active, mainpc, mainidx, report>>
    /\ UNCHANGED <<script, chaosVars>>

\* simulate_attack_bot, lines 88-90: the store of bot_requests_sent; a blocked
\* request goes on to load bot_requests_blocked, any other releases the lock
BotStoreSent(s) ==
    /\ s.pc = "store"
    /\ s.kind = "bot"
    /\ results' = [results EXCEPT !.bot_requests_sent = s.reg + 1]
    /\ IF IsBlocked(s.status_code)
       THEN /\ actors' = Moved(s, [s EXCEPT !.pc = "store_blocked",
                                            !.reg = results.bot_requests_blocked])
            /\ UNCHANGED lock
       ELSE /\ actors' = Moved(s, NextIteration(s))
            /\ lock' = Unlocked
    /\ UNCHANGED <<ddos_protection_active, mainpc, mainidx, report>>
    /\ UNCHANGED <<script, chaosVars>>

\* simulate_attack_bot, line 90: the store of bot_requests_blocked, then the release
BotStoreBlocked(s) ==
    /\ s.pc = "store_blocked"
    /\ results' = [results EXCEPT !.bot_requests_blocked = s.reg + 1]
    /\ lock' = Unlocked
    /\ actors' = Moved(s, NextIteration(s))
    /\ UNCHANGED <<ddos_protection_active, mainpc, mainidx, report>>
    /\ UNCHANGED <<script, chaosVars>>

(***************************************************************************)
(* DDoSSimulation.run_simulation of chaos_test_ddos_demo.py.               *)
(***************************************************************************)
\* thread.start(): the thread enters its loop
Started(s) == [s EXCEPT !.pc = LoopHead(s.kind, 0)]

\* lines 105-108 (and the sleep of line 110 after the last start)
LaunchUser ==
    /\ mainpc = "launch_users"
    /\ actors' = Moved(Unstarted("user"), Started(Unstarted("user")))
    /\ mainidx' = IF mainidx = NORMAL_USERS THEN 1 ELSE mainidx + 1
    /\ mainpc' = IF mainidx = NORMAL_USERS THEN "launch_bots" ELSE "launch_users"
    /\ UNCHANGED <<results, lock, ddos_protection_active, report>>
    /\ UNCHANGED <<script, chaosVars>>

\* lines 115-118
LaunchBot ==
    /\ mainpc = "launch_bots"
    /\ actors' = Moved(Unstarted("bot"), Started(Unstarted("bot")))
    /\ mainidx' = IF mainidx = ATTACK_BOTS THEN 1 ELSE mainidx + 1
    /\ mainpc' = IF mainidx = ATTACK_BOTS THEN "join" ELSE "launch_bots"
    /\ UNCHANGED <<results, lock, ddos_protection_active, report>>
    /\ UNCHANGED <<script, chaosVars>>

\* lines 122-123: `for thread in threads: thread.join()` is left when every
\* thread has terminated (a terminated thread stays terminated)
AllJoined == \A s \in Running : s.pc = "done"

JoinAll ==
    /\ mainpc = "join"
    /\ AllJoined
    /\ mainpc' = "report"
    /\ UNCHANGED <<results, lock, ddos_protection_active, actors, mainidx, report>>
    /\ UNCHANGED <<script, chaosVars>>

\* line 126
GenerateReport ==
    /\ mainpc = "report"
    /\ report' = DemoDDoSReport(results)
    /\ mainpc' = "done"
    /\ UNCHANGED <<results, lock, ddos_protection_active, actors, mainidx>>
    /\ UNCHANGED <<script, chaosVars>>

vars == <<script, ddosVars, chaosVars>>

Init == script = "ddos_demo" /\ InitDDoS /\ InitChaos

Next ==
    \/ LaunchUser
    \/ LaunchBot
    \/ JoinAll
    \/ GenerateReport
    \/ \E s \in Running : MockCheck(s)
    \/ \E s \in Running : MockRespond(s)
    \/ \E s \in Running : AcquireLoad(s)
    \/ \E s \in Running : UserStore(s)
    \/ \E s \in Running : BotStoreSent(s)
    \/ \E s \in Running : BotStoreBlocked(s)

Spec == Init /\ [][Next]_vars

(***************************************************************************)
(* DDoSSimulation of chaos_test_ddos.py (SpecNet).  The threads are the    *)
(* same bag of thread states; a thread in the except clause has no         *)
(* response, which is status_code 0.  Sizes are scaled down from 100 users *)
(* of 10 requests and 1000 bots of 100 requests.  Time is not modelled: a  *)
(* request may take any time, and so may the threads' progress.            *)
(***************************************************************************)
NetUsers == 1

NetBots == 2

NetRequestsPerUser == 1

NetRequestsPerBot == 1

NetBudget(kind) == IF kind = "bot" THEN NetRequestsPerBot ELSE NetRequestsPerUser

\* status codes of a response: success, rate limited, unavailable
NetStatuses == {200, 429, 503}

NetNextIteration(s) ==
    [s EXCEPT !.pc = IF s.i + 1 < NetBudget(s.kind) THEN "call" ELSE "done",
              !.i = s.i + 1, !.status_code = 0, !.reg = 0]

InitNet ==
    /\ script = "ddos_net"
    /\ results = InitResults
    /\ lock = FALSE
    /\ ddos_protection_active = FALSE
    /\ actors = [s \in {Unstarted("user"), Unstarted("bot")} |->
                    IF s.kind = "user" THEN NetUsers ELSE NetBots]
    /\ mainpc = "launch_users"
    /\ mainidx = 1
    /\ report = NoReport
    /\ InitChaos

NetFrame == UNCHANGED <<script, ddos_protection_active, chaosVars>>

\* lines 48-57, 74-83: requests.get returns a response
NetRequestReturns(s) ==
    /\ s.pc = "call"
    /\ actors' = Moved(s, [s EXCEPT !.pc = "lock"])
    /\ UNCHANGED <<results, lock, mainpc, mainidx, report>>
    /\ NetFrame

\* Variant without the except clauses: the exception ends the thread
\* (sensitivity check of NetOneOutcomePerRequest).
NetUncaught(s) == [s EXCEPT !.pc = "done"]

\* lines 65, 92: the exception is caught inside the loop body
NetCaught(s) == [s EXCEPT !.pc = "except"]

\* lines 65, 92: requests.get raises RequestException
NetRequestRaises(s) ==
    /\ s.pc = "call"
    /\ actors' = Moved(s, NetCaught(s))
    /\ UNCHANGED <<results, lock, mainpc, mainidx, report>>
    /\ NetFrame

\* lines 59-63, 85-86: `with self.lock:` after a response (whose status is drawn
\* here, where it is first used) and the load of the first `+= 1`
NetAcquireLoad(s) ==
    /\ s.pc = "lock"
    /\ LockAvailable
    /\ lock' = TRUE
    /\ \E code \in NetStatuses :
           actors' = Moved(s, [s EXCEPT !.pc = "store",
                                        !.status_code = code,
                                        !.reg = IF s.kind = "bot"
                                                THEN results.bot_requests_sent
                                                ELSE results[UserKey(code)]])
    /\ UNCHANGED <<results, mainpc, mainidx, report>>
    /\ NetFrame

\* lines 66-67, 93-94: `with self.lock:` in the except clause and the load
NetExceptAcquireLoad(s) ==
    /\ s.pc = "except"
    /\ LockAvailable
    /\ lock' = TRUE
    /\ actors' = Moved(s, [s EXCEPT !.pc = "store",
                                    !.reg = IF s.kind = "bot"
                                            THEN results.bot_requests_sent
                                            ELSE results.normal_user_fail])
    /\ UNCHANGED <<results, mainpc, mainidx, report>>
    /\ NetFrame

\* lines 60-63 and 67: the store, then the release
NetUserStore(s) ==
    /\ s.pc = "store"
    /\ s.kind = "user"
    /\ results' = [results EXCEPT ![UserKey(s.status_code)] = s.reg + 1]
    /\ lock' = Unlocked
    /\ actors' = Moved(s, NetNextIteration(s))
    /\ UNCHANGED <<mainpc, mainidx, report>>
    /\ NetFrame

\* lines 86-90 and 94-95: the store of bot_requests_sent; a blocked request and
\* a failed one go on to bot_requests_blocked
NetBotStoreSent(s) ==
    /\ s.pc = "store"
    /\ s.kind = "bot"
    /\ results' = [results EXCEPT !.bot_requests_sent = s.reg + 1]
    /\ IF s.status_code = 0 \/ IsBlocked(s.status_code)
       THEN /\ actors' = Moved(s, [s EXCEPT !.pc = "store_blocked",
                                            !.reg = results.bot_requests_blocked])
            /\ UNCHANGED lock
       ELSE /\ actors' = Moved(s, NetNextIteration(s))
            /\ lock' = Unlocked
    /\ UNCHANGED <<mainpc, mainidx, report>>
    /\ NetFrame

\* lines 90 and 95: the store of bot_requests_blocked, then the release
NetBotStoreBlocked(s) ==
    /\ s.pc = "store_blocked"
    /\ results' = [results EXCEPT !.bot_requests_blocked = s.reg + 1]
    /\ lock' = Unlocked
    /\ actors' = Moved(s, NetNextIteration(s))
    /\ UNCHANGED <<mainpc, mainidx, report>>
    /\ NetFrame

NetStarted(s) == [s EXCEPT !.pc = IF 0 < NetBudget(s.kind) THEN "call" ELSE "done"]

\* lines 112-118 (and the sleep of line 120 after the last start)
NetLaunchUser ==
    /\ mainpc = "launch_users"
    /\ actors' = Moved(Unstarted("user"), NetStarted(Unstarted("user")))
    /\ mainidx' = IF mainidx = NetUsers THEN 1 ELSE mainidx + 1
    /\ mainpc' = IF mainidx = NetUsers THEN "launch_bots" ELSE "launch_users"
    /\ UNCHANGED <<results, lock, report>>
    /\ NetFrame

\* lines 125-131 (and the sleep of line 134 after the last start)
NetLaunchBot ==
    /\ mainpc = "launch_bots"
    /\ actors' = Moved(Unstarted("bot"), NetStarted(Unstarted("bot")))
    /\ mainidx' = IF mainidx = NetBots THEN 1 ELSE mainidx + 1
    /\ mainpc' = IF mainidx = NetBots THEN "join" ELSE "launch_bots"
    /\ UNCHANGED <<results, lock, report>>
    /\ NetFrame

\* lines 138-139: thread.join(timeout=10) returns when the thread has
\* terminated or when 10 seconds have passed, whichever comes first; it does
\* not tell which, and run_simulation does not ask (no is_alive())
NetJoin ==
    /\ mainpc = "join"
    /\ mainidx' = IF mainidx = NetUsers + NetBots THEN mainidx ELSE mainidx + 1
    /\ mainpc' = IF mainidx = NetUsers + NetBots THEN "report" ELSE "join"
    /\ UNCHANGED <<results, lock, actors, report>>
    /\ NetFrame

\* line 142
NetGenerateReport ==
    /\ mainpc = "report"
    /\ report' = NetDDoSReport(results)
    /\ mainpc' = "done"
    /\ UNCHANGED <<results, lock, actors, mainidx>>
    /\ NetFrame

NextNet ==
    \/ NetLaunchUser
    \/ NetLaunchBot
    \/ NetJoin
    \/ NetGenerateReport
    \/ \E s \in Running : NetRequestReturns(s)
    \/ \E s \in Running : NetRequestRaises(s)
    \/ \E s \in Running : NetAcquireLoad(s)
    \/ \E s \in Running : NetExceptAcquireLoad(s)
    \/ \E s \in Running : NetUserStore(s)
    \/ \E s \in Running : NetBotStoreSent(s)
    \/ \E s \in Running : NetBotStoreBlocked(s)

SpecNet == InitNet /\ [][NextNet]_vars

(***************************************************************************)
(* Either DDoS script, run to its end (SpecLive).  The demo's run          *)
(* waits for its threads without a bound, so its threads are taken to keep *)
(* running; the network run needs only run_simulation itself to keep       *)
(* running, whatever becomes of the requests of its threads.               *)
(***************************************************************************)
InitLive == Init \/ InitNet

DemoStep == script = "ddos_demo" /\ Next

NetStep == script = "ddos_net" /\ NextNet

\* run_simulation of chaos_test_ddos.py alone
NetMainStep ==
    /\ script = "ddos_net"
    /\ NetLaunchUser \/ NetLaunchBot \/ NetJoin \/ NetGenerateReport

NextLive == DemoStep \/ NetStep

SpecLive ==
    /\ InitLive
    /\ [][NextLive]_vars
    /\ WF_vars(DemoStep)
    /\ WF_vars(NetMainStep)

(***************************************************************************)
(* ChaosTest of chaos_test_server_failure_demo.py.  SpecChaos lets a       *)
(* caller make any sequence of kill_random_server and check_system_health  *)
(* calls on one ChaosTest object (run_test makes one such sequence).       *)
(* Times are counted in thirds of a millisecond, the unit in which         *)
(* base_time * 5 / N is whole for every live count N of 1..5.              *)
(***************************************************************************)
MaxKillCalls == 6

MaxChecks == 3

TICKS_PER_MS == 3

\* random.uniform(0, 50): the two ends of the range, in ticks
Jitters == {0, 50 * TICKS_PER_MS}

\* Variant of line 46 that stops at an empty pool (sensitivity check of
\* PoolKeepsOneServer and KillCountDown).
CanKillLast(live) == live > 0

\* line 46
CanKill(live) == live > 1

\* line 47: random.choice(self.active_servers)
Victims(active) == {active[k] : k \in DOMAIN active}

\* Variant of line 48 that leaves the list as it is (sensitivity check of
\* PoolPartition).
NotRemoved(active, server) == active

\* line 48: list.remove drops the first occurrence
Remove(active, server) ==
    LET first == CHOOSE k \in DOMAIN active :
                     /\ active[k] = server
                     /\ \A j \in 1 .. (k - 1) : active[j] # server
    IN  SubSeq(active, 1, first - 1) \o SubSeq(active, first + 1, Len(active))

\* kill_random_server, lines 44-58 (the time of a failure record is left out)
Kill ==
    /\ kill_calls' = kill_calls + 1
    /\ IF CanKill(Len(active_servers))
       THEN \E server \in Victims(active_servers) :
                /\ active_servers' = Remove(active_servers, server)
                /\ chaos' = [chaos EXCEPT !.server_failures = Append(@, server)]
                /\ last_kill' = server
       ELSE /\ last_kill' = "None"
            /\ UNCHANGED <<active_servers, chaos>>
    /\ UNCHANGED chaos_error

\* a call of kill_random_server on the object
KillRandomServer ==
    /\ chaos_error = "none"
    /\ kill_calls < MaxKillCalls
    /\ Kill
    /\ UNCHANGED <<script, ddosVars>>

\* lines 66-68: base_time * load_factor + jitter, in ticks
ResponseTime(live, jitter) == (100 * 5 * TICKS_PER_MS) \div live + jitter

\* Variant of line 73 with a step of 0.02 (sensitivity check of
\* SuccessProbabilityMonotone).
SuccessProbabilitySteep(live) == 950 + (live - 1) * 20

\* line 73, in per-mille
SuccessProbability(live) == 950 + (live - 1) * 10

\* line 75: what `random.random() < success_probability` can yield
HealthOutcomes(live) ==
    {success \in BOOLEAN :
        IF success THEN SuccessProbability(live) > 0
                   ELSE SuccessProbability(live) < 1000}

\* check_system_health, lines 77-91, with mock_health_check, lines 60-75;
\* line 67 raises ZeroDivisionError on an empty pool, after line 79 has counted
\* the request
Check ==
    /\ IF Len(active_servers) = 0
       THEN /\ chaos' = [chaos EXCEPT !.total_requests = @ + 1]
            /\ chaos_error' = "ZeroDivisionError"
       ELSE /\ \E success \in HealthOutcomes(Len(active_servers)), jitter \in Jitters :
                  chaos' =
                      IF success
                      THEN [chaos EXCEPT
                               !.total_requests = @ + 1,
                               !.successful_requests = @ + 1,
                               !.response_times =
                                   Append(@, ResponseTime(Len(active_servers), jitter))]
                      ELSE [chaos EXCEPT
                               !.total_requests = @ + 1,
                               !.failed_requests = @ + 1]
            /\ UNCHANGED chaos_error
    /\ UNCHANGED <<active_servers, kill_calls, last_kill>>

\* a call of check_system_health on the object
CheckSystemHealth ==
    /\ chaos_error = "none"
    /\ chaos.total_requests < MaxChecks
    /\ Check
    /\ UNCHANGED <<script, ddosVars>>

InitChaosTest == script = "chaos_demo" /\ InitDDoS /\ InitChaos

NextChaos ==
    \/ KillRandomServer
    \/ CheckSystemHealth

SpecChaos == InitChaosTest /\ [][NextChaos]_vars

(***************************************************************************)
(* ChaosTest.generate_report, demo and network.                            *)
(***************************************************************************)
RECURSIVE SumOf(_)
SumOf(seq) == IF seq = <<>> THEN 0 ELSE Head(seq) + SumOf(Tail(seq))

\* `(success / total * 100) if total > 0 else 0`
ChaosSuccessRate(success, total) ==
    IF total > 0 THEN Times(PyDiv(success, total), 100) ELSE Zero

\* `sum(times) / len(times) if times else 0`, in ticks
AvgResponseTime(times) ==
    IF times # <<>> THEN PyDiv(SumOf(times), Len(times)) ELSE Zero

\* `avg_response_time < 3000`
FastEnough(avg) == Below(avg, 3000 * TICKS_PER_MS)

\* chaos_test_server_failure_demo.py, lines 126-168
DemoChaosReport(c) ==
    LET success_rate == ChaosSuccessRate(c.successful_requests, c.total_requests)
        avg_response_time == AvgResponseTime(c.response_times)
    IN  IF Raised(success_rate) \/ Raised(avg_response_time)
        THEN ErrorReport("chaos_demo")
        ELSE [kind |-> "chaos_demo", error |-> "none",
              success_rate |-> success_rate,
              avg_response_time |-> avg_response_time,
              criteria |->
                [success_rate |->
                     IF AtLeastX10(success_rate, 999) THEN "PASS"
                     ELSE IF AtLeastX10(success_rate, 950) THEN "ACCEPTABLE"
                     ELSE "FAIL",
                 response_time |->
                     IF FastEnough(avg_response_time) THEN "PASS" ELSE "FAIL"],
              overall |->
                  IF AtLeastX10(success_rate, 950) /\ FastEnough(avg_response_time)
                  THEN "RESILIENT" ELSE "NEEDS IMPROVEMENT"]

\* chaos_test_server_failure.py, lines 121-152
NetChaosReport(c) ==
    LET success_rate == ChaosSuccessRate(c.successful_requests, c.total_requests)
        avg_response_time == AvgResponseTime(c.response_times)
    IN  IF Raised(success_rate) \/ Raised(avg_response_time)
        THEN ErrorReport("chaos_net")
        ELSE [kind |-> "chaos_net", error |-> "none",
              success_rate |-> success_rate,
              avg_response_time |-> avg_response_time,
              criteria |->
                [success_rate |->
                     IF AtLeastX10(success_rate, 999) THEN "PASS" ELSE "FAIL",
                 response_time |->
                     IF FastEnough(avg_response_time) THEN "PASS" ELSE "FAIL"],
              overall |->
                  IF AtLeastX10(success_rate, 999) /\ FastEnough(avg_response_time)
                  THEN "RESILIENT" ELSE "NEEDS IMPROVEMENT"]

(***************************************************************************)
(* ChaosTest.run_test of chaos_test_server_failure_demo.py (SpecRunTest).  *)
(* mainpc is the position of run_test and mainidx its loop index i.  The   *)
(* number of rounds is scaled down from the source's 10.                   *)
(***************************************************************************)
NUM_HEALTH_CHECKS == 3

InitRunTest ==
    /\ script = "chaos_demo"
    /\ InitChaos
    /\ results = InitResults
    /\ lock = FALSE
    /\ ddos_protection_active = FALSE
    /\ actors = EmptyBag
    /\ mainpc = "initial_check"
    /\ mainidx = 0
    /\ report = NoReport

RunTestFrame ==
    UNCHANGED <<script, results, lock, ddos_protection_active, actors>>

\* Variant of line 107 that runs one round more (sensitivity check of
\* RunTestOrder).
RoundHeadInclusive(i) == IF i <= NUM_HEALTH_CHECKS THEN "round" ELSE "report"

\* line 107: the head of `for i in range(NUM_HEALTH_CHECKS)`
RoundHead(i) == IF i < NUM_HEALTH_CHECKS THEN "round" ELSE "report"

\* line 104: the initial health check
RunInitialCheck ==
    /\ mainpc = "initial_check"
    /\ chaos_error = "none"
    /\ Check
    /\ mainpc' = RoundHead(0)
    /\ UNCHANGED <<mainidx, report>>
    /\ RunTestFrame

\* lines 111-112: random.random() < 0.4, and the kill
RoundKill ==
    /\ mainpc = "round"
    /\ chaos_error = "none"
    /\ Kill
    /\ mainpc' = "round_check"
    /\ UNCHANGED <<mainidx, report>>
    /\ RunTestFrame

\* line 111: random.random() >= 0.4, no kill this round
RoundSkip ==
    /\ mainpc = "round"
    /\ chaos_error = "none"
    /\ mainpc' = "round_check"
    /\ UNCHANGED <<mainidx, report, chaosVars>>
    /\ RunTestFrame

\* line 115: the round's health check, then the next round
RoundCheck ==
    /\ mainpc = "round_check"
    /\ chaos_error = "none"
    /\ Check
    /\ mainidx' = mainidx + 1
    /\ mainpc' = RoundHead(mainidx + 1)
    /\ UNCHANGED report
    /\ RunTestFrame

\* line 118
RunTestReport ==
    /\ mainpc = "report"
    /\ chaos_error = "none"
    /\ report' = DemoChaosReport(chaos)
    /\ mainpc' = "done"
    /\ UNCHANGED <<mainidx, chaosVars>>
    /\ RunTestFrame

NextRunTest ==
    \/ RunInitialCheck
    \/ RoundKill
    \/ RoundSkip
    \/ RoundCheck
    \/ RunTestReport

SpecRunTest == InitRunTest /\ [][NextRunTest]_vars

(***************************************************************************)
(* Either demo script, run from start to report (SpecDemo): run_simulation *)
(* of chaos_test_ddos_demo.py or run_test of                               *)
(* chaos_test_server_failure_demo.py.                                      *)
(***************************************************************************)
InitDemo == Init \/ InitRunTest

RunTestStep == script = "chaos_demo" /\ NextRunTest

NextDemo == DemoStep \/ RunTestStep

SpecDemo == InitDemo /\ [][NextDemo]_vars

(***************************************************************************)
(* ChaosTest of either attrition script under any sequence of calls        *)
(* (SpecHealth).  In chaos_test_server_failure.py a kill only records the  *)
(* chosen server, and a health check is a request to the load balancer.    *)
(***************************************************************************)
MaxNetKills == 2

\* line 68: the measured response time, a short one and one near the timeout
NetResponseTimes == {40 * TICKS_PER_MS, 9000 * TICKS_PER_MS}

\* lines 62-65 and 72, 81: what the request comes to
NetHealthOutcomes == {"ok", "bad_status", "exception"}

\* Variant of lines 81-83 without `total_requests += 1` (sensitivity check of
\* HealthTotalsBalanced).
NetCheckedErrorUncounted(c, outcome, time) ==
    CASE outcome = "ok" ->
             [c EXCEPT !.response_times = Append(@, time),
                       !.total_requests = @ + 1,
                       !.successful_requests = @ + 1]
      [] outcome = "bad_status" ->
             [c EXCEPT !.response_times = Append(@, time),
                       !.total_requests = @ + 1,
                       !.failed_requests = @ + 1]
      [] outcome = "exception" ->
             [c EXCEPT !.failed_requests = @ + 1]

\* chaos_test_server_failure.py, check_system_health, lines 58-85: the results
\* after the call
NetChecked(c, outcome, time) ==
    CASE outcome = "ok" ->
             [c EXCEPT !.response_times = Append(@, time),
                       !.total_requests = @ + 1,
                       !.successful_requests = @ + 1]
      [] outcome = "bad_status" ->
             [c EXCEPT !.response_times = Append(@, time),
                       !.total_requests = @ + 1,
                       !.failed_requests = @ + 1]
      [] outcome = "exception" ->
             [c EXCEPT !.failed_requests = @ + 1,
                       !.total_requests = @ + 1]

\* chaos_test_server_failure.py, check_system_health
NetCheckSystemHealth ==
    /\ script = "chaos_net"
    /\ chaos.total_requests < MaxChecks
    /\ \E outcome \in NetHealthOutcomes, time \in NetResponseTimes :
           chaos' = NetChecked(chaos, outcome, time)
    /\ UNCHANGED <<active_servers, kill_calls, last_kill, chaos_error>>
    /\ UNCHANGED <<script, ddosVars>>

\* chaos_test_server_failure.py, kill_random_server, lines 45-56: the server is
\* recorded, nothing is removed
NetKillRandomServer ==
    /\ script = "chaos_net"
    /\ kill_calls < MaxNetKills
    /\ kill_calls' = kill_calls + 1
    /\ \E server \in SetOfServers :
           /\ chaos' = [chaos EXCEPT !.server_failures = Append(@, server)]
           /\ last_kill' = server
    /\ UNCHANGED <<active_servers, chaos_error>>
    /\ UNCHANGED <<script, ddosVars>>

InitHealth ==
    /\ script \in {"chaos_demo", "chaos_net"}
    /\ InitDDoS
    /\ InitChaos

NextHealth ==
    \/ script = "chaos_demo" /\ KillRandomServer
    \/ script = "chaos_demo" /\ CheckSystemHealth
    \/ NetKillRandomServer
    \/ NetCheckSystemHealth

SpecHealth == InitHealth /\ [][NextHealth]_vars

(***************************************************************************)
(* SpecReport: each generate_report applied to metrics drawn from bounded  *)
(* sets.  The sets hold the empty categories, the threshold rates          *)
(* (19/20, 4/5, 999/1000, an average of exactly 3000 ms) and the rates of  *)
(* the verdict scenarios (24/25, 41/50, 30/50).                            *)
(***************************************************************************)
MaxSuccess == 24

MaxFail == 1

MaxBotSent == 50

MaxFailed == 2

MaxSamples == 2

DDoSInputs ==
    {r \in [normal_user_success : 0 .. MaxSuccess, normal_user_fail : 0 .. MaxFail,
            bot_requests_sent : 0 .. MaxBotSent, bot_requests_blocked : 0 .. MaxBotSent] :
        r.bot_requests_blocked <= r.bot_requests_sent}

ChaosTotals == {0, 1, 20, 1000}

\* 100 ms, 3000 ms and 4000 ms
SampleTimes == {100 * TICKS_PER_MS, 3000 * TICKS_PER_MS, 4000 * TICKS_PER_MS}

ChaosInputs ==
    {[total_requests |-> total, successful_requests |-> total - failed,
      failed_requests |-> failed, response_times |-> times, server_failures |-> <<>>] :
        total \in ChaosTotals, failed \in 0 .. MaxFailed,
        times \in UNION {[1 .. n -> SampleTimes] : n \in 0 .. MaxSamples}}

InitReport ==
    /\ script = "generate_report"
    /\ lock = FALSE
    /\ ddos_protection_active = FALSE
    /\ actors = EmptyBag
    /\ mainpc = "report"
    /\ mainidx = 1
    /\ report = NoReport
    /\ active_servers = SERVERS
    /\ kill_calls = 0
    /\ last_kill = "not called"
    /\ chaos_error = "none"
    /\ results \in DDoSInputs
    /\ chaos \in {c \in ChaosInputs :
                     /\ c.failed_requests <= c.total_requests
                     /\ Len(c.response_times) <= c.total_requests}
    /\ results = InitResults \/ chaos = InitChaosResults

ReportFrame ==
    UNCHANGED <<script, results, lock, ddos_protection_active, actors, mainpc,
                mainidx, chaosVars>>

ReportDemoDDoS == report = NoReport /\ report' = DemoDDoSReport(results) /\ ReportFrame

ReportNetDDoS == report = NoReport /\ report' = NetDDoSReport(results) /\ ReportFrame

ReportDemoChaos == report = NoReport /\ report' = DemoChaosReport(chaos) /\ ReportFrame

ReportNetChaos == report = NoReport /\ report' = NetChaosReport(chaos) /\ ReportFrame

NextReport ==
    \/ ReportDemoDDoS
    \/ ReportNetDDoS
    \/ ReportDemoChaos
    \/ ReportNetChaos

SpecReport == InitReport /\ [][NextReport]_vars

(***************************************************************************)
(* Properties of the demo DDoS run (Spec).                                 *)
(***************************************************************************)
\* C1: at the moment generate_report starts, the recorded normal-user outcomes
\* number NORMAL_USERS * REQUESTS_PER_USER and the recorded bot requests
\* ATTACK_BOTS * REQUESTS_PER_BOT, under every interleaving: no update is lost
\* and none is duplicated.
DemoTotalsExact ==
    mainpc = "report" =>
        /\ results.normal_user_success + results.normal_user_fail
               = NORMAL_USERS * REQUESTS_PER_USER
        /\ results.bot_requests_sent = ATTACK_BOTS * REQUESTS_PER_BOT

\* generate_report starts after a run with failed and blocked requests
DemoTotalsReached ==
    /\ mainpc = "report"
    /\ results.normal_user_fail > 0
    /\ results.bot_requests_blocked > 1

\* C2: ddos_protection_active starts false and, once true, is true in every
\* later state, under every interleaving of the mock_server_response calls.
ProtectionNeverReverts ==
    /\ ~ddos_protection_active
    /\ [][ddos_protection_active => ddos_protection_active']_vars

\* protection is active and a later mock_server_response call has been made
ProtectionStaysReached ==
    /\ ddos_protection_active
    /\ results.bot_requests_sent > ACTIVATION_THRESHOLD + 1
    /\ \E s \in Running : s.pc = "respond"

\* a step that is the threshold comparison of some mock_server_response call
IsMockCheckStep ==
    \E s \in Running :
        /\ s.pc = "call"
        /\ actors' = Moved(s, [s EXCEPT !.pc = "respond"])

\* C3: the activation comparison is strict: a call that observes
\* bot_requests_sent = 5 leaves the flag as it was, a call that observes 6 (or
\* more) sets it, and the flag is never true while bot_requests_sent <= 5.
ActivationIsStrict ==
    /\ [](ddos_protection_active => results.bot_requests_sent > 5)
    /\ [][IsMockCheckStep =>
             /\ results.bot_requests_sent <= 5 =>
                    ddos_protection_active' = ddos_protection_active
             /\ results.bot_requests_sent >= 6 => ddos_protection_active']_vars

\* the call that observed 6 has set the flag
ActivationAtSixReached ==
    /\ ddos_protection_active
    /\ results.bot_requests_sent = 6

\* C14: a normal request is answered 200 or 503 and a bot request 200 or 429
\* in every state, with protection active or not: a normal call never takes a
\* bot branch, and the statuses open to it are the same for either value of
\* the flag.
NormalStatusesIgnoreProtection ==
    /\ StatusesOf(PolicyOf(FALSE, ddos_protection_active)) = {200, 503}
    /\ StatusesOf(PolicyOf(TRUE, ddos_protection_active)) = {200, 429}
    /\ \A active \in BOOLEAN :
           StatusesOf(PolicyOf(FALSE, active)) =
               StatusesOf(PolicyOf(FALSE, ddos_protection_active))
    /\ \A s \in Running :
           /\ s.policy # "none" => (s.policy = "normal" <=> s.kind = "user")
           /\ s.status_code # 0 =>
                  s.status_code \in (IF s.kind = "user" THEN {200, 503} ELSE {200, 429})

\* a normal user has been answered 503 and protection is active
NormalAnsweredUnderProtection ==
    /\ ddos_protection_active
    /\ \E s \in Running : s.kind = "user" /\ s.pc = "store" /\ s.status_code = 503

\* the number of threads in the states of S
RECURSIVE ThreadsIn(_)
ThreadsIn(S) ==
    IF S = {} THEN 0
    ELSE LET s == CHOOSE x \in S : TRUE
         IN CopiesIn(s, actors) + ThreadsIn(S \ {s})

\* the bot requests whose branch has been taken: those recorded, and those of
\* the bots between the call's return and the store of bot_requests_sent
BotRequestsDecided ==
    results.bot_requests_sent +
        ThreadsIn({s \in Running : s.kind = "bot" /\ s.pc \in {"lock", "store"}})

\* C15: a bot request counts itself before the comparison that decides it, so
\* the 6th bot request is decided with protection active and at most
\* ACTIVATION_THRESHOLD bot requests are decided by the pre-activation policy:
\* as long as protection is not active (every bot request so far was decided
\* pre-activation) no more than ACTIVATION_THRESHOLD have been decided.
AtMostThresholdDecidedBefore ==
    ~ddos_protection_active => BotRequestsDecided <= ACTIVATION_THRESHOLD

\* a thread in state s goes through mock_server_response (either of its steps)
IsMockStepOf(s) ==
    \/ s.pc = "call" /\ actors' = Moved(s, [s EXCEPT !.pc = "respond"])
    \/ s.pc = "respond" /\ CopiesIn(s, actors') = CopiesIn(s, actors) - 1

\* C16: only bot requests change the protection state: a call of
\* mock_server_response for a normal user leaves ddos_protection_active and
\* the results counters as they were.
NormalCallChangesNothing ==
    [][\A s \in Running :
           s.kind = "user" /\ IsMockStepOf(s) =>
               /\ ddos_protection_active' = ddos_protection_active
               /\ results' = results]_vars

\* C17: protection is activated in every run (a run ends with the report, and
\* by then the flag is set), and a bot call that begins once 6 bot requests
\* have been recorded is decided by the post-activation branch: its check sets
\* the flag, the flag stays, and a bot call that reads the flag set takes the
\* post-activation branch.
ProtectionActivatesAndDecides ==
    /\ [](AllJoined /\ mainpc \in {"join", "report", "done"} =>
             ddos_protection_active)
    /\ [][\A s \in Running :
              /\ s.kind = "bot"
              /\ s.pc = "call"
              /\ actors' = Moved(s, [s EXCEPT !.pc = "respond"])
              /\ results.bot_requests_sent >= ACTIVATION_THRESHOLD + 1
              => ddos_protection_active']_vars
    /\ [][ddos_protection_active => ddos_protection_active']_vars
    /\ [][\A s \in Running :
              /\ s.kind = "bot"
              /\ s.pc = "respond"
              /\ CopiesIn(s, actors') = CopiesIn(s, actors) - 1
              /\ ddos_protection_active
              => actors' = Moved(s, [s EXCEPT !.pc = "lock", !.policy = "post"])]_vars

\* a bot call made after the 6th record has taken the post-activation branch
PostDecisionReached ==
    /\ ddos_protection_active
    /\ results.bot_requests_sent >= ACTIVATION_THRESHOLD + 1
    /\ \E s \in Running : s.kind = "bot" /\ s.pc = "lock" /\ s.policy = "post"

\* the step is taken by a thread inside a `with self.lock:` block
IsStepOfLockHolder ==
    /\ lock
    /\ \E s \in Running :
           /\ s.pc \in {"store", "store_blocked"}
           /\ CopiesIn(s, actors') = CopiesIn(s, actors) - 1

\* C18: every mutation of the results counters and of ddos_protection_active,
\* and every read of bot_requests_sent for the activation decision (the check
\* of mock_server_response), is made by a thread that holds self.lock.
SharedStateUnderLock ==
    [][(\/ results' # results
        \/ ddos_protection_active' # ddos_protection_active
        \/ IsMockCheckStep) => IsStepOfLockHolder]_vars

(***************************************************************************)
(* Properties of the demo ChaosTest (SpecChaos).                           *)
(***************************************************************************)
SetOf(seq) == {seq[k] : k \in DOMAIN seq}

Max(a, b) == IF a >= b THEN a ELSE b

\* C4: after any sequence of kill_random_server and check_system_health calls
\* at least one server is active, so mock_health_check never divides by a live
\* count of 0, and a kill_random_server call made with exactly one active
\* server returns None and kills nothing.
PoolKeepsOneServer ==
    /\ [](Len(active_servers) >= 1 /\ chaos_error = "none")
    /\ [][(kill_calls' # kill_calls /\ Len(active_servers) = 1) =>
             (last_kill' = "None" /\ active_servers' = active_servers)]_vars

\* a kill on the last server returned None and a health check ran on one server
LastServerSparedReached ==
    /\ Len(active_servers) = 1
    /\ last_kill = "None"
    /\ \E k \in DOMAIN chaos.response_times :
           chaos.response_times[k] >= ResponseTime(1, 0)

\* C5: after k kill_random_server calls on the initial pool of 5 servers the
\* live count is max(1, 5 - k): 3 calls leave 2, the 4th leaves 1, and every
\* later call leaves 1.
KillCountDown ==
    Len(active_servers) = Max(1, Len(SERVERS) - kill_calls)

\* two calls were made after the pool had come down to one server
KillCountDownReached ==
    /\ kill_calls = Len(SERVERS) + 1
    /\ Len(active_servers) = 1

\* C6: the active servers and the servers recorded in server_failures are
\* disjoint, together they are SERVERS, and no server is recorded twice (live
\* count + kill count = 5).
PoolPartition ==
    /\ SetOf(active_servers) \cap SetOf(chaos.server_failures) = {}
    /\ SetOf(active_servers) \cup SetOf(chaos.server_failures) = SetOf(SERVERS)
    /\ Cardinality(SetOf(chaos.server_failures)) = Len(chaos.server_failures)
    /\ Len(active_servers) + Len(chaos.server_failures) = Len(SERVERS)

\* four servers have been killed and recorded
PoolPartitionReached == Len(chaos.server_failures) = Len(SERVERS) - 1

\* a step that is a check_system_health call (line 79 counts every call)
IsHealthCheckStep == chaos'.total_requests # chaos.total_requests

\* a step that is a kill_random_server call
IsKillStep == kill_calls' # kill_calls

\* the sequence without the entries equal to server
Without(seq, server) == SelectSeq(seq, LAMBDA x : x # server)

\* C23: in the demo attrition test check_system_health (with mock_health_check)
\* leaves active_servers and server_failures unchanged; a kill_random_server
\* call that returns a server removes exactly that server from active_servers,
\* appends exactly one record for it and leaves every request counter and
\* response_times unchanged; a call that returns None leaves active_servers,
\* server_failures and all counters unchanged.
PoolChangedOnlyByKill ==
    [][/\ IsHealthCheckStep =>
              /\ active_servers' = active_servers
              /\ chaos'.server_failures = chaos.server_failures
       /\ (IsKillStep /\ last_kill' # "None") =>
              /\ last_kill' \in SetOf(active_servers)
              /\ active_servers' = Without(active_servers, last_kill')
              /\ Len(active_servers') = Len(active_servers) - 1
              /\ chaos' = [chaos EXCEPT !.server_failures = Append(@, last_kill')]
       /\ (IsKillStep /\ last_kill' = "None") =>
              /\ active_servers' = active_servers
              /\ chaos' = chaos]_vars

\* kills have succeeded, a kill has returned None, and health checks of both
\* outcomes have been made
KillsAndChecksMade ==
    /\ kill_calls = Len(SERVERS)
    /\ last_kill = "None"
    /\ Len(chaos.server_failures) = Len(SERVERS) - 1
    /\ chaos.successful_requests >= 1
    /\ chaos.failed_requests >= 1

\* the response times a health check can record with n live servers
TimesWith(n) == {ResponseTime(n, jitter) : jitter \in Jitters}

\* C24: for every live count N the pool can reach (1..5), the success
\* probability of mock_health_check, 950 + 10 * (N - 1) per mille, lies within
\* [0, 1000] and is greater than that of every smaller live count; a kill
\* strictly lowers it.
SuccessProbabilityMonotone ==
    /\ [](LET live == Len(active_servers)
          IN  /\ live \in 1 .. Len(SERVERS)
              /\ SuccessProbability(live) \in 0 .. 1000
              /\ \A fewer \in 1 .. (live - 1) :
                     SuccessProbability(fewer) < SuccessProbability(live))
    /\ [][Len(active_servers') < Len(active_servers) =>
             SuccessProbability(Len(active_servers'))
                 < SuccessProbability(Len(active_servers))]_vars

\* health checks have succeeded with all five servers and with one server
CheckedAtBothEnds ==
    /\ Len(active_servers) = 1
    /\ \E j, k \in DOMAIN chaos.response_times :
           /\ chaos.response_times[j] \in TimesWith(Len(SERVERS))
           /\ chaos.response_times[k] \in TimesWith(1)

\* C25: as the comment of mock_health_check says, the success probability is
\* 99.9% (999 per mille) while all 5 servers are live and 95% (950 per mille)
\* while 1 server is live.
DocumentedProbabilities ==
    /\ Len(active_servers) = Len(SERVERS) =>
           SuccessProbability(Len(active_servers)) = 999
    /\ Len(active_servers) = 1 =>
           SuccessProbability(Len(active_servers)) = 950

(***************************************************************************)
(* Properties of the generate_report functions (SpecReport).               *)
(***************************************************************************)
IsDDoSReport == report.kind \in {"ddos_demo", "ddos_net"}

IsChaosReport == report.kind \in {"chaos_demo", "chaos_net"}

TotalNormal == results.normal_user_success + results.normal_user_fail

OverallIffNoCriterionFails ==
    (report.kind # "none" /\ report.error = "none") =>
        (report.overall = "RESILIENT"
            <=> \A c \in DOMAIN report.criteria : report.criteria[c] # "FAIL")

\* the demo attrition report is resilient with a merely ACCEPTABLE success rate
ResilientWithAcceptableReached ==
    /\ report.kind = "chaos_demo"
    /\ report.criteria.success_rate = "ACCEPTABLE"
    /\ report.overall = "RESILIENT"

\* the verdict scenarios of the DDoS evaluator: 96% with 82%, and 96% with 60%
VerdictScenarios ==
    /\ (/\ results.normal_user_success = 24 /\ results.normal_user_fail = 1
        /\ results.bot_requests_blocked = 41 /\ results.bot_requests_sent = 50)
           => report.overall = "RESILIENT"
    /\ (/\ results.normal_user_success = 24 /\ results.normal_user_fail = 1
        /\ results.bot_requests_blocked = 30 /\ results.bot_requests_sent = 50)
           => /\ report.overall = "NEEDS IMPROVEMENT"
              /\ report.criteria.normal_user_access = "PASS"
              /\ report.criteria.bot_blocking = "FAIL"

NetReportAfterAllActors ==
    mainpc \in {"report", "done"} => \A s \in Running : s.pc = "done"

\* the outcomes a thread in state s has recorded: one per finished iteration,
\* and the bot_requests_sent of the iteration it is finishing
RecordedBy(s) == s.i + IF s.pc = "store_blocked" THEN 1 ELSE 0

RECURSIVE Tally(_)
Tally(S) ==
    IF S = {} THEN 0
    ELSE LET s == CHOOSE x \in S : TRUE
         IN CopiesIn(s, actors) * RecordedBy(s) + Tally(S \ {s})

\* a thread in state s leaves the except clause's `with` block
LeavesExcept(s) ==
    /\ s.pc \in {"store", "store_blocked"}
    /\ s.status_code = 0
    /\ CopiesIn(s, actors') = CopiesIn(s, actors) - 1

NetPartialRunFlagged ==
    [][(/\ mainpc = "report"
        /\ mainpc' = "done"
        /\ \E s \in Running : s.pc # "done") =>
           /\ report'.kind = "ddos_net"
           /\ report'.total_normal =
                  results.normal_user_success + results.normal_user_fail
           /\ "incomplete" \in DOMAIN report'
           /\ report'.incomplete]_vars

(***************************************************************************)
(* Properties of both DDoS runs (SpecLive).                                *)
(***************************************************************************)
\* C13: every run of run_simulation, demo or network, reaches generate_report:
\* the loops of the threads end, a taken lock is released again, and
\* run_simulation does not wait for ever.
RunsReachReport ==
    /\ <>(mainpc = "done" /\ report.kind = script)
    /\ (script = "ddos_demo" /\ lock) ~> ~lock

\* the network run has reported with a thread still on its way
NetReportedWithStragglers ==
    /\ script = "ddos_net"
    /\ mainpc = "done"
    /\ report.kind = "ddos_net"
    /\ \E s \in Running : s.pc # "done"

(***************************************************************************)
(* Properties of the demo run_test (SpecRunTest).                          *)
(***************************************************************************)
\* the response times a health check can record with the servers now live
TimesNow == {ResponseTime(Len(active_servers), jitter) : jitter \in Jitters}

\* C19: run_test performs exactly NUM_HEALTH_CHECKS + 1 health checks; the
\* first runs with all 5 servers live and before any kill; a kill attempt is
\* made only at the start of a round, at most once, and is followed by that
\* round's check, which is evaluated against the servers live after the kill.
RunTestOrder ==
    /\ [](mainpc \in {"report", "done"} =>
             chaos.total_requests = NUM_HEALTH_CHECKS + 1)
    /\ [](chaos.total_requests = 0 =>
             Len(active_servers) = Len(SERVERS) /\ kill_calls = 0)
    /\ [](kill_calls <= chaos.total_requests)
    /\ [][kill_calls' # kill_calls =>
             /\ kill_calls' = kill_calls + 1
             /\ chaos'.total_requests = chaos.total_requests
             /\ mainpc = "round"
             /\ mainpc' = "round_check"]_vars
    /\ [][chaos'.total_requests # chaos.total_requests =>
             /\ chaos'.total_requests = chaos.total_requests + 1
             /\ mainpc \in {"initial_check", "round_check"}
             /\ mainpc' \in {"round", "report"}
             /\ kill_calls' = kill_calls
             /\ active_servers' = active_servers
             /\ chaos'.successful_requests # chaos.successful_requests =>
                    chaos'.response_times[Len(chaos'.response_times)] \in TimesNow]_vars

\* the first round killed a server and its check answered with 4 servers live
KilledThenChecked ==
    /\ kill_calls = 1
    /\ Len(active_servers) = 4
    /\ chaos.total_requests = 2
    /\ Len(chaos.response_times) = 2
    /\ chaos.response_times[1] \in {ResponseTime(5, jitter) : jitter \in Jitters}
    /\ chaos.response_times[2] \in {ResponseTime(4, jitter) : jitter \in Jitters}

(***************************************************************************)
(* Properties of the health checks of both attrition scripts (SpecHealth). *)
(***************************************************************************)
\* C20: after every check_system_health call, whichever branch it took,
\* total_requests = successful_requests + failed_requests; in the demo the
\* recorded response times are those of the successful requests.
HealthTotalsBalanced ==
    /\ chaos.total_requests = chaos.successful_requests + chaos.failed_requests
    /\ script = "chaos_demo" =>
           Len(chaos.response_times) = chaos.successful_requests

\* the network script has been through a success, a bad status and an exception
AllBranchesCounted ==
    /\ script = "chaos_net"
    /\ chaos.total_requests = 3
    /\ chaos.successful_requests = 1
    /\ chaos.failed_requests = 2
    /\ Len(chaos.response_times) = 2

\* C22: in chaos_test_server_failure.py kill_random_server picks its victim
\* among the servers still live: no server is recorded twice in
\* server_failures and at most len(SERVERS) - 1 kills are recorded, however
\* many calls are made.
NetKillsFromLiveSet ==
    script = "chaos_net" =>
        /\ Cardinality(SetOf(chaos.server_failures)) = Len(chaos.server_failures)
        /\ Len(chaos.server_failures) <= Len(SERVERS) - 1

(***************************************************************************)
(* Properties of the counters of both DDoS scripts (SpecLive).             *)
(***************************************************************************)
\* C26: in every reachable state of either DDoS script, under every
\* interleaving, 0 <= bot_requests_blocked <= bot_requests_sent (a blocked
\* request is counted as sent first, in the same critical section), and the
\* bot block rate of the report is at most 100%.
BlockedWithinSent ==
    /\ 0 <= results.bot_requests_blocked
    /\ results.bot_requests_blocked <= results.bot_requests_sent
    /\ (IsDDoSReport /\ report.error = "none") =>
           report.bot_block_rate.num <= 100 * report.bot_block_rate.den

\* in the network script a bot whose request raised has counted it as sent and
\* not yet as blocked, after another bot's request was counted as both
BlockedPendingReached ==
    /\ script = "ddos_net"
    /\ results.bot_requests_blocked >= 1
    /\ results.bot_requests_sent = results.bot_requests_blocked + 1
    /\ \E s \in Running : s.pc = "store_blocked" /\ s.status_code = 0

(***************************************************************************)
(* Properties of both demo runs (SpecDemo).                                *)
(***************************************************************************)
\* a is an initial segment of b
IsPrefix(a, b) == Len(a) <= Len(b) /\ SubSeq(b, 1, Len(a)) = a

\* C21: in every step of the demo DDoS run each of normal_user_success,
\* normal_user_fail, bot_requests_sent and bot_requests_blocked is
\* non-decreasing; in every step of the demo attrition run the three request
\* counters are non-decreasing and response_times and server_failures only
\* grow at the end, their earlier entries staying in place.
MetricsNeverShrink ==
    [][/\ \A k \in DOMAIN results : results'[k] >= results[k]
       /\ chaos'.total_requests >= chaos.total_requests
       /\ chaos'.successful_requests >= chaos.successful_requests
       /\ chaos'.failed_requests >= chaos.failed_requests
       /\ IsPrefix(chaos.response_times, chaos'.response_times)
       /\ IsPrefix(chaos.server_failures, chaos'.server_failures)]_vars

\* the attrition run has ended with several kills, response times and a failure
MetricsGrewReached ==
    /\ script = "chaos_demo"
    /\ mainpc = "done"
    /\ Len(chaos.server_failures) >= 2
    /\ Len(chaos.response_times) >= 2
    /\ chaos.failed_requests >= 1

====
